---- MODULE Spec2Model ----
(***************************************************************************)
(* Resilient AI-invocation engine of the document orchestrator backend:    *)
(* the retry loop (callWithRetry), the response normalizer, the JSON        *)
(* recovery in extractStructuredJSON, the POST /process route and the       *)
(* request queue in front of extractStructuredJSON.                         *)
(*                                                                          *)
(* The repository holds three generations of services/aiService.js; the    *)
(* variable impl names the one a behaviour runs:                            *)
(*   "robust"  src/unnamed/part_002                 (axios client, env)     *)
(*   "gemini"  src/src/services/aiService.js 1-166  (Gemini via axios)      *)
(*   "openai"  src/src/services/aiService.js 168-279 (OpenAI SDK)           *)
(***************************************************************************)
EXTENDS Integers, Sequences, FiniteSets, TLC

Impls == {"robust", "gemini", "openai"}

(* ---------------- configuration (defaults of the source) --------------- *)
MAX_RETRIES == 4
INITIAL_BACKOFF_MS == 800
MAX_BACKOFF_MS == 30000
GeminiMaxAttempts == 5
GeminiBaseDelayMs == 1000
GeminiMaxDelayMs == 30000
OpenAIMaxAttempts == 6
OpenAIBaseDelay == 500

(* err.response.status is undefined for a network error or a timeout *)
NoStatus == 0

(* Date.now() at the moment a failure is handled, in ms *)
NowMs == 1000000

Min(a, b) == IF a < b THEN a ELSE b
Max(a, b) == IF a > b THEN a ELSE b

RECURSIVE Pow2(_)
Pow2(n) == IF n <= 0 THEN 1 ELSE 2 * Pow2(n - 1)

(* Number(text) of a text that is not a number: NaN, for which every       *)
(* comparison is false                                                       *)
NaN == -1000000

(* a >= b in JavaScript *)
JSGe(a, b) == a # NaN /\ b # NaN /\ a >= b

(* the values MAX_RETRIES takes from GEMINI_MAX_RETRIES: "abc", "-1", "0",  *)
(* "1", "2"                                                                  *)
EnvMaxRetries == {NaN, -1, 0, 1, 2}

(* transport calls of one request the model follows; no configuration asks   *)
(* for as many                                                               *)
CallCap == 8

(* the maxAttempts values a run may be configured with *)
AttemptsCfg(i) ==
  CASE i = "robust" -> 1..MAX_RETRIES
    [] i = "gemini" -> {GeminiMaxAttempts}
    [] i = "openai" -> {OpenAIMaxAttempts}

BaseDelayOf(i) ==
  CASE i = "robust" -> INITIAL_BACKOFF_MS
    [] i = "gemini" -> GeminiBaseDelayMs
    [] i = "openai" -> OpenAIBaseDelay

(* the policy's maxDelayMs; the OpenAI generation has none *)
HasMaxDelay(i) == i \in {"robust", "gemini"}
MaxDelayOf(i) == IF i = "robust" THEN MAX_BACKOFF_MS ELSE GeminiMaxDelayMs

(* whether the transport call is given a timeout: the axios client of      *)
(* part_002 has timeout: REQUEST_TIMEOUT_MS, axios.post(url, payload,       *)
(* { headers }) and openai.createChatCompletion(...) are given none         *)
HasCallTimeout(i) == i = "robust"

(* ---------------- upstream failures ------------------------------------ *)
Statuses == {NoStatus, 429, 500, 503, 599, 400, 401, 404, 600}

(* A Retry-After header: absent, a text (sequence of characters), or an     *)
(* HTTP date (kept as the epoch milliseconds Date.parse gives for it).      *)
AbsentHeader == [kind |-> "absent", chars |-> <<>>, epoch |-> 0]
TextHeader(cs) == [kind |-> "text", chars |-> cs, epoch |-> 0]
DateHeader(t) == [kind |-> "date", chars |-> <<>>, epoch |-> t]

Headers ==
  { AbsentHeader,
    TextHeader(<<>>),
    TextHeader(<<"0">>),
    TextHeader(<<"5">>),
    TextHeader(<<"3", "6", "0", "0">>),
    TextHeader(<<"-", "5">>),
    TextHeader(<<"a", "b", "c">>),
    DateHeader(NowMs - 5000),
    DateHeader(NowMs + 7000),
    DateHeader(NowMs + 90000) }

Digits == {"0", "1", "2", "3", "4", "5", "6", "7", "8", "9"}

DigitVal(c) ==
  CASE c = "0" -> 0 [] c = "1" -> 1 [] c = "2" -> 2 [] c = "3" -> 3
    [] c = "4" -> 4 [] c = "5" -> 5 [] c = "6" -> 6 [] c = "7" -> 7
    [] c = "8" -> 8 [] c = "9" -> 9

RECURSIVE DecimalVal(_)
DecimalVal(cs) ==
  IF cs = <<>> THEN 0
  ELSE 10 * DecimalVal(SubSeq(cs, 1, Len(cs) - 1)) + DigitVal(cs[Len(cs)])

AllDigits(cs) == \A k \in 1..Len(cs) : cs[k] \in Digits

(* Number(header): [nan, val]. The empty string is 0, an optional sign and  *)
(* decimal digits give the integer, anything else (and a date) is NaN.      *)
JSNumber(h) ==
  IF h.kind = "date" THEN [nan |-> TRUE, val |-> 0]
  ELSE IF h.chars = <<>> THEN [nan |-> FALSE, val |-> 0]
  ELSE IF h.chars[1] \in {"-", "+"}
    THEN LET rest == Tail(h.chars) IN
         IF rest # <<>> /\ AllDigits(rest)
           THEN [nan |-> FALSE,
                 val |-> IF h.chars[1] = "-" THEN 0 - DecimalVal(rest) ELSE DecimalVal(rest)]
           ELSE [nan |-> TRUE, val |-> 0]
  ELSE IF AllDigits(h.chars) THEN [nan |-> FALSE, val |-> DecimalVal(h.chars)]
  ELSE [nan |-> TRUE, val |-> 0]

(* Date.parse(header): [nan, val] *)
JSDateParse(h) ==
  IF h.kind = "date" THEN [nan |-> FALSE, val |-> h.epoch] ELSE [nan |-> TRUE, val |-> 0]

(* !header *)
HeaderFalsy(h) == h.kind = "absent" \/ (h.kind = "text" /\ h.chars = <<>>)

(* parseRetryAfter(header): [isNull, ms] *)
parseRetryAfter(h) ==
  IF HeaderFalsy(h) THEN [isNull |-> TRUE, ms |-> 0]
  ELSE LET n == JSNumber(h) t == JSDateParse(h) IN
       IF ~n.nan THEN [isNull |-> FALSE, ms |-> n.val * 1000]
       ELSE IF ~t.nan THEN [isNull |-> FALSE, ms |-> Max(0, t.val - NowMs)]
       ELSE [isNull |-> TRUE, ms |-> 0]

(* a slip in the classification: every status from 400 up is retried *)
IsRetryableFrom400(status) == status = NoStatus \/ status >= 400

(* !status || status === 429 || (status >= 500 && status < 600) *)
IsRetryable(status) ==
  status = NoStatus \/ status = 429 \/ (status >= 500 /\ status < 600)

(* slips in the final-attempt test: one attempt too few, one too many *)
ShouldThrowEarly(i, status, att, maxAtt) ==
  \/ (status # NoStatus /\ status # 429 /\ ~(status >= 500 /\ status < 600))
  \/ att + 1 >= maxAtt
ShouldThrowLate(i, status, att, maxAtt) ==
  \/ (status # NoStatus /\ status # 429 /\ ~(status >= 500 /\ status < 600))
  \/ att > maxAtt

(* the test that ends the loop with the enriched error *)
ShouldThrow(i, status, att, maxAtt) ==
  IF i = "robust"
    THEN ~IsRetryable(status) \/ JSGe(att, maxAtt)
    ELSE ~IsRetryable(status) \/ att = maxAtt

(* the exponential cap of an attempt *)
BackoffCap(i, att) ==
  IF HasMaxDelay(i)
    THEN Min(MaxDelayOf(i), BaseDelayOf(i) * Pow2(att - 1))
    ELSE BaseDelayOf(i) * Pow2(att - 1)

(* Math.floor(Math.random() * cap): Math.random() is in [0,1), so the draw  *)
(* is any integer of 0..cap-1; the least, the middle and the greatest stand *)
(* for them.                                                                *)
JitterDraws(cap) == IF cap <= 0 THEN {0} ELSE {0, cap \div 2, cap - 1}

(* the waits the code can compute after failed attempt att *)
WaitChoices(i, att, h) ==
  LET ra == parseRetryAfter(h) IN
  IF ra.isNull
    THEN IF i = "robust"
           THEN { j + INITIAL_BACKOFF_MS : j \in JitterDraws(BackoffCap(i, att)) }
           ELSE JitterDraws(BackoffCap(i, att))
    ELSE IF i = "gemini" THEN { Min(ra.ms, GeminiMaxDelayMs) } ELSE { ra.ms }

(* ---------------- model text and JSON ---------------------------------- *)
(* A text is a sequence of tokens: " " is white space, "FENCE" a code fence (three backquotes), *)
(* "json" and "js" language tags, "$..." a JSON string literal ("$" is the *)
(* empty string ""), "0.9" and "7" number literals, other tokens are words. *)
StringTokens ==
  {"$", "$x", "$summary", "$key_pairs", "$confidence", "$key", "$value", "$reason"}
NumberTokens == {"0.9", "7"}

(* a number literal's value, in tenths *)
NumTenths(tok) == IF tok = "0.9" THEN 9 ELSE 70

(* JSON values: one record shape for all of them *)
Undefined == [t |-> "undefined", s |-> "", n |-> 0, keys |-> <<>>, kids |-> <<>>]
StrVal(tok) == [t |-> "str", s |-> tok, n |-> 0, keys |-> <<>>, kids |-> <<>>]
NumVal(tok) == [t |-> "num", s |-> "", n |-> NumTenths(tok), keys |-> <<>>, kids |-> <<>>]
ObjVal(ks, vs) == [t |-> "obj", s |-> "", n |-> 0, keys |-> ks, kids |-> vs]
ArrVal(vs) == [t |-> "arr", s |-> "", n |-> 0, keys |-> <<>>, kids |-> vs]

RECURSIVE StripWs(_)
StripWs(toks) ==
  IF toks = <<>> THEN <<>>
  ELSE IF Head(toks) = " " THEN StripWs(Tail(toks))
  ELSE <<Head(toks)>> \o StripWs(Tail(toks))

ParseFail == [ok |-> FALSE, v |-> Undefined, next |-> 0]

RECURSIVE PValue(_, _), PMembers(_, _, _, _), PElements(_, _, _)
(* one JSON value starting at s[i]; s holds no white space *)
PValue(s, i) ==
  IF i > Len(s) THEN ParseFail
  ELSE IF s[i] \in StringTokens THEN [ok |-> TRUE, v |-> StrVal(s[i]), next |-> i + 1]
  ELSE IF s[i] \in NumberTokens THEN [ok |-> TRUE, v |-> NumVal(s[i]), next |-> i + 1]
  ELSE IF s[i] = "{"
    THEN IF i + 1 <= Len(s) /\ s[i + 1] = "}"
           THEN [ok |-> TRUE, v |-> ObjVal(<<>>, <<>>), next |-> i + 2]
           ELSE PMembers(s, i + 1, <<>>, <<>>)
  ELSE IF s[i] = "["
    THEN IF i + 1 <= Len(s) /\ s[i + 1] = "]"
           THEN [ok |-> TRUE, v |-> ArrVal(<<>>), next |-> i + 2]
           ELSE PElements(s, i + 1, <<>>)
  ELSE ParseFail

(* string ":" value, then "," and another member, or "}" *)
PMembers(s, i, ks, vs) ==
  IF i + 1 > Len(s) THEN ParseFail
  ELSE IF s[i] \notin StringTokens \/ s[i + 1] # ":" THEN ParseFail
  ELSE LET r == PValue(s, i + 2) IN
       IF ~r.ok \/ r.next > Len(s) THEN ParseFail
       ELSE IF s[r.next] = ","
         THEN PMembers(s, r.next + 1, Append(ks, s[i]), Append(vs, r.v))
       ELSE IF s[r.next] = "}"
         THEN [ok |-> TRUE, v |-> ObjVal(Append(ks, s[i]), Append(vs, r.v)),
               next |-> r.next + 1]
       ELSE ParseFail

(* value, then "," and another element, or "]" *)
PElements(s, i, vs) ==
  LET r == PValue(s, i) IN
  IF ~r.ok \/ r.next > Len(s) THEN ParseFail
  ELSE IF s[r.next] = "," THEN PElements(s, r.next + 1, Append(vs, r.v))
  ELSE IF s[r.next] = "]"
    THEN [ok |-> TRUE, v |-> ArrVal(Append(vs, r.v)), next |-> r.next + 1]
  ELSE ParseFail

(* JSON.parse(text): [ok, v]; ok = FALSE is the SyntaxError *)
JSONParse(toks) ==
  LET s == StripWs(toks) r == PValue(s, 1) IN
  IF r.ok /\ r.next = Len(s) + 1 THEN [ok |-> TRUE, v |-> r.v]
  ELSE [ok |-> FALSE, v |-> Undefined]

RECURSIVE TrimStart(_)
TrimStart(toks) ==
  IF toks # <<>> /\ Head(toks) = " " THEN TrimStart(Tail(toks)) ELSE toks

RECURSIVE TrimEnd(_)
TrimEnd(toks) ==
  IF toks # <<>> /\ toks[Len(toks)] = " "
    THEN TrimEnd(SubSeq(toks, 1, Len(toks) - 1)) ELSE toks

(* String.prototype.trim *)
Trim(toks) == TrimEnd(TrimStart(toks))

(* clean.startsWith(fence) *)
StartsWithFence(toks) == toks # <<>> /\ Head(toks) = "FENCE"

(* .replace(/^FENCE(json)?/i, '') on a text that starts with a fence *)
DropOpenFence(toks) ==
  LET a == Tail(toks) IN
  IF a # <<>> /\ Head(a) = "json" THEN Tail(a) ELSE a

(* .replace(/FENCE$/, '') *)
DropCloseFence(toks) ==
  IF toks # <<>> /\ toks[Len(toks)] = "FENCE"
    THEN SubSeq(toks, 1, Len(toks) - 1) ELSE toks

(* the fence removal of each generation *)
StripFence(i, toks) ==
  IF ~StartsWithFence(toks) THEN toks
  ELSE IF i = "robust"
    THEN LET a == TrimStart(DropOpenFence(toks)) IN
         IF a # <<>> /\ a[Len(a)] = "FENCE" THEN TrimEnd(DropCloseFence(a)) ELSE a
    ELSE DropCloseFence(DropOpenFence(toks))

(* clean.match(/\{[\s\S]*\}/): from the first "{" to the last "}" *)
BraceMatch(toks) ==
  LET opens == {k \in 1..Len(toks) : toks[k] = "{"}
      closes == {k \in 1..Len(toks) : toks[k] = "}"}
  IN IF opens = {} \/ closes = {} THEN [found |-> FALSE, sub |-> <<>>]
     ELSE LET a == CHOOSE k \in opens : \A m \in opens : k <= m
              b == CHOOSE k \in closes : \A m \in closes : k >= m
          IN IF a < b THEN [found |-> TRUE, sub |-> SubSeq(toks, a, b)]
             ELSE [found |-> FALSE, sub |-> <<>>]

(* the try/catch around JSON.parse: direct parse, then the brace substring *)
RecoverJSON(clean) ==
  LET direct == JSONParse(clean) m == BraceMatch(clean) IN
  IF direct.ok THEN direct
  ELSE IF m.found THEN JSONParse(m.sub)
  ELSE [ok |-> FALSE, v |-> Undefined]

(* ---------------- response bodies -------------------------------------- *)
(* A field that may hold text: absent, a string, or an array of strings.    *)
NoText == [kind |-> "absent", str |-> <<>>, parts |-> <<>>]
Str(toks) == [kind |-> "str", str |-> toks, parts |-> <<>>]
Arr(ps) == [kind |-> "arr", str |-> <<>>, parts |-> ps]

(* resp.data: null/undefined, or an object with these fields *)
NullBody ==
  [isNull |-> TRUE, hasChoice |-> FALSE, msgContent |-> NoText, choiceText |-> NoText,
   outputText |-> NoText, outputContent |-> NoText, deltaContent |-> NoText]
ChatBody(c) == [NullBody EXCEPT !.isNull = FALSE, !.hasChoice = TRUE, !.msgContent = c]
LegacyBody(c) == [NullBody EXCEPT !.isNull = FALSE, !.hasChoice = TRUE, !.choiceText = c]
OutputTextBody(c) == [NullBody EXCEPT !.isNull = FALSE, !.outputText = c]
OutputBody(c) == [NullBody EXCEPT !.isNull = FALSE, !.outputContent = c]
UnknownBody == [NullBody EXCEPT !.isNull = FALSE]
(* a streamed chunk: choices[0].delta.content *)
DeltaBody(c) == [NullBody EXCEPT !.isNull = FALSE, !.hasChoice = TRUE, !.deltaContent = c]

(* a value is truthy unless it is absent or the empty string *)
Truthy(f) == f.kind = "arr" \/ (f.kind = "str" /\ f.str # <<>>)

(* extractTextFromResponse / extractTextFromResponseData: NoText is null *)
extractTextFromResponse(i, data) ==
  IF data.isNull THEN NoText
  ELSE IF i = "robust"
    THEN IF data.hasChoice /\ Truthy(data.msgContent) THEN data.msgContent
         ELSE IF data.hasChoice /\ data.choiceText.kind = "str" THEN data.choiceText
         ELSE IF data.outputText.kind = "str" THEN data.outputText
         ELSE IF Truthy(data.outputContent) THEN data.outputContent
         ELSE NoText
    ELSE IF data.hasChoice /\ Truthy(data.msgContent) THEN data.msgContent
         ELSE IF Truthy(data.outputText) THEN data.outputText
         ELSE NoText

RECURSIVE JoinComma(_)
JoinComma(ps) ==
  IF ps = <<>> THEN <<>>
  ELSE IF Len(ps) = 1 THEN ps[1]
  ELSE ps[1] \o <<",">> \o JoinComma(Tail(ps))

(* String(textOut) *)
ToStr(f) == IF f.kind = "arr" THEN JoinComma(f.parts) ELSE f.str

(* !textOut || !String(textOut).trim() *)
NoUsableOutput(f) == ~Truthy(f) \/ Trim(ToStr(f)) = <<>>

(* ---------------- the texts and bodies an upstream may answer ---------- *)
ValidJSON ==
  <<"{", "$summary", ":", "$x", ",",
    "$key_pairs", ":", "[", "{", "$key", ":", "$x", ",", "$value", ":", "$x", ",",
    "$reason", ":", "$x", "}", "]", ",",
    "$confidence", ":", "0.9", "}">>

(* JSON object texts a model may answer with *)
JObjects ==
  { ValidJSON,
    <<"{", "}">>,
    <<"{", "$summary", ":", "$", "}">> }

(* the ways a model presents the object text J: bare, in a code fence with  *)
(* or without a language tag, and with commentary before and/or after it    *)
Presentations(J) ==
  { J,
    <<"FENCE">> \o J \o <<"FENCE">>,
    <<"FENCE", "json", " ">> \o J \o <<" ", "FENCE">>,
    <<"FENCE", "js", " ">> \o J \o <<" ", "FENCE">>,
    <<"Here", " ">> \o J,
    J \o <<" ", "Done">>,
    <<"Here", " ">> \o J \o <<" ", "Done">> }

Texts ==
  UNION {Presentations(J) : J \in JObjects} \cup
  { <<" ", "Sorry", " ">>,
    <<"Here", " ", "{", "Sorry", "}">>,
    <<"{", "note", "}", " ">> \o ValidJSON,
    ValidJSON,
    <<"FENCE", "json", " ">> \o ValidJSON \o <<" ", "FENCE">>,
    <<"Here", " ">> \o ValidJSON \o <<" ", "Done">>,
    <<"Sorry">>,
    <<" ">>,
    <<>>,
    <<"[", "]">>,
    <<"7">>,
    <<"$x">>,
    <<"{", "$summary", ":", "$", "}">>,
    <<"{", "$summary", ":", "$x", ",", "$confidence", ":", "7", "}">>,
    <<"{", "$summary", ":">> }

(* bodies that match several shapes, or a shape with blank text *)
MixedBodies ==
  { [OutputTextBody(Str(<<"$x">>)) EXCEPT !.outputContent = Str(<<"7">>)],
    [LegacyBody(Str(<<" ">>)) EXCEPT !.outputText = Str(ValidJSON)],
    [ChatBody(Str(ValidJSON)) EXCEPT !.choiceText = Str(<<"7">>), !.outputText = Str(<<"$x">>)],
    DeltaBody(Str(ValidJSON)),
    ChatBody(Arr(<<<<"$x">>, <<"7">>>>)) }

Bodies ==
  {NullBody, UnknownBody} \cup MixedBodies
    \cup {ChatBody(Str(t)) : t \in Texts}
    \cup {ChatBody(Arr(<<ValidJSON>>)), ChatBody(Arr(<<>>)),
          LegacyBody(Str(ValidJSON)), LegacyBody(Str(<<"Sorry">>)),
          OutputTextBody(Str(ValidJSON)), OutputBody(Str(<<"7">>))}

(* ---------------- the n8n forwarder -------------------------------------- *)
(* the status of a delivered post *)
OkStatus == 200

(* how a post to the webhook can end: delivered, or failed with a status     *)
(* (NoStatus: no answer from the webhook, or the 15 s timeout)               *)
Deliveries == {OkStatus} \cup Statuses

Outcome(kind, st) == [kind |-> kind, status |-> st]
NotCalled == Outcome("none", NoStatus)

(* sendToN8N: no post without the URL; a failed post is logged, not thrown *)
sendToN8N(url, d) ==
  IF ~url
    THEN [posts |-> 0, outcome |-> Outcome("skipped", NoStatus), threw |-> FALSE]
    ELSE IF d = OkStatus
    THEN [posts |-> 1, outcome |-> Outcome("delivered", d), threw |-> FALSE]
    ELSE [posts |-> 1, outcome |-> Outcome("failed", d), threw |-> FALSE]

(* recipientEmail of a /send-webhook request *)
Emails == {"missing", "invalid", "valid"}

(* req.body.text of a /send-webhook request: absent, a string, or a value    *)
(* without slice (a number, an object)                                       *)
TextKinds == {"absent", "string", "other"}

(* /send-webhook requests the model follows *)
MaxWebhookReqs == 4

(* ---------------- one request through extractStructuredJSON ------------ *)
VARIABLES
  impl,         \* the generation of aiService.js in use
  apiKey,       \* whether GEMINI_API_KEY / OPENAI_API_KEY is set
  maxAttempts,  \* the retry policy's maxAttempts
  pc,           \* "init", "call", "sleep", "settled", "responded"
  attempt,      \* callWithRetry's attempt
  calls,        \* transport calls made (fn() invocations)
  failures,     \* transport calls that failed
  sleeps,       \* sleep(waitMs) calls
  status,       \* status of the failure being handled
  header,       \* its Retry-After header
  waitMs,       \* the wait computed for it
  cwr,          \* how callWithRetry ended: "none", "returned", "threw", "fellout"
  data,         \* resp.data of the successful call
  parseFailed,  \* the model text was empty or could not be parsed
  result,       \* what extractStructuredJSON settled with
  n8nCalls,     \* sendToN8N calls of the route
  response,     \* the answer of POST /process
  upstreamBody, \* whether the failure being handled has a body (err.response.data)
  enriched      \* the error callWithRetry threw

rvars == <<impl, apiKey, maxAttempts, pc, attempt, calls, failures, sleeps, status,
           header, waitMs, cwr, data, parseFailed, result, n8nCalls, response,
           upstreamBody, enriched>>

VARIABLES
  nextReq,       \* the next POST /process request to arrive
  reqRoute,      \* per request: the route file that served it
  reqState,      \* "new", "waiting", "running", "sleeping", "succeeded", "failed"
  reqAttempt,    \* callWithRetry's attempt of the request
  reqAdmitted,   \* the request's task was started by the queue
  reqCalled,     \* a transport call was made for the request
  qWaiting,      \* the queue's waiting tasks, oldest first
  qPending,      \* the queue's count of executing tasks
  intervalCount, \* starts counted in the current window
  phase,         \* time since the window began, in ticks
  recentStarts   \* starts in each of the last IntervalMs ticks, oldest first

qvars == <<nextReq, reqRoute, reqState, reqAttempt, reqAdmitted, reqCalled, qWaiting,
           qPending, intervalCount, phase, recentStarts>>

VARIABLES
  docText,       \* the document text of the request, as characters
  embedded       \* the text put between the fences of the user prompt

pvars == <<docText, embedded>>

(* ---------------- the n8n forwarder and POST /send-webhook -------------- *)
VARIABLES
  n8nUrl,      \* whether N8N_WEBHOOK_URL is set
  n8nPosts,    \* axios.post calls to the webhook
  n8nOutcome,  \* what the last sendToN8N call did
  whReqs,      \* POST /send-webhook requests received
  whPc,        \* "idle", "posting", "responded"
  whEmail,     \* recipientEmail of the request: "missing", "invalid", "valid"
  whResponse   \* the answer of POST /send-webhook

wvars == <<n8nUrl, n8nPosts, n8nOutcome, whReqs, whPc, whEmail, whResponse>>

vars == <<rvars, qvars, pvars, wvars>>

(* ---------------- the prompt ------------------------------------------- *)
(* A document is a sequence of characters: "Q" is a double quote, "B" a     *)
(* backquote, " " a space, "a" any other character.                         *)
TRUNCATE_CHARS == 15000
MaxDocLen == 5
DocChars == {"Q", "B", "a"}
DocTexts == UNION {[1..n -> DocChars] : n \in 0..MaxDocLen}

(* .replace(/ccc/g, '" " "'): every match, left to right, without overlap *)
RECURSIVE ReplaceTriples(_, _)
ReplaceTriples(t, c) ==
  IF Len(t) < 3 THEN t
  ELSE IF t[1] = c /\ t[2] = c /\ t[3] = c
    THEN <<"Q", " ", "Q", " ", "Q">> \o ReplaceTriples(SubSeq(t, 4, Len(t)), c)
  ELSE <<t[1]>> \o ReplaceTriples(Tail(t), c)

(* .slice(0, TRUNCATE_CHARS) *)
Truncate(t) == SubSeq(t, 1, Min(Len(t), TRUNCATE_CHARS))

(* the text each generation puts between the triple quotes of the prompt *)
EmbedDocument(i, t) ==
  CASE i = "robust" -> Truncate(ReplaceTriples(t, "B"))
    [] i = "gemini" -> Truncate(ReplaceTriples(t, "Q"))
    [] i = "openai" -> Truncate(t)

Pending ==
  [kind |-> "pending", success |-> FALSE, payload |-> Undefined, errorObj |-> FALSE,
   errName |-> "", errStatus |-> NoStatus, errAttempts |-> 0, raw |-> <<>>,
   hasRawResponse |-> FALSE, rawResponse |-> NullBody, parseMessages |-> {}]
Resolved(ok, v, raw) ==
  [Pending EXCEPT !.kind = "resolved", !.success = ok, !.payload = v, !.raw = raw]
Rejected(name, st, att, raw) ==
  [Pending EXCEPT !.kind = "rejected", !.errName = name, !.errStatus = st,
                  !.errAttempts = att, !.raw = raw]
(* the OpenAI generation's return { error: true, ... } / { raw, parseError } *)
ReturnedError(name, st, raw) ==
  [Pending EXCEPT !.kind = "resolved", !.errorObj = TRUE, !.errName = name,
                  !.errStatus = st, !.raw = raw]

(* the response body put on a result or an error: rawResponse: data, e.raw = data *)
WithRawResponse(res, d) == [res EXCEPT !.hasRawResponse = TRUE, !.rawResponse = d]

(* the messages of the parse failures put on an error: parseError *)
WithParseMessages(res, ms) == [res EXCEPT !.parseMessages = ms]

(* what extractStructuredJSON does with the response of a successful call *)
ParseResponse(i, d) ==
  IF i = "openai"
    THEN IF d.isNull \/ ~d.hasChoice \/ d.msgContent.kind = "absent"
           THEN ReturnedError("TypeError", NoStatus, <<>>)
           ELSE LET content == ToStr(d.msgContent) p == JSONParse(content) IN
                IF p.ok THEN Resolved(FALSE, p.v, content)
                ELSE WithParseMessages(ReturnedError("parseError", NoStatus, content),
                                       {"direct"})
    ELSE LET textOut == extractTextFromResponse(i, d) IN
         IF NoUsableOutput(textOut)
           THEN WithRawResponse(Rejected("EmptyOutput", NoStatus, 0, <<>>), d)
         ELSE IF i = "gemini" /\ textOut.kind = "arr"
           THEN Rejected("TypeError", NoStatus, 0, <<>>)
         ELSE LET clean == StripFence(i, Trim(ToStr(textOut)))
                  direct == JSONParse(clean)
                  m == BraceMatch(clean)
                  r == RecoverJSON(clean)
              IN IF r.ok
                   THEN IF i = "gemini" THEN Resolved(TRUE, r.v, ToStr(textOut))
                        ELSE WithRawResponse(
                               Resolved(TRUE, r.v, IF direct.ok THEN clean ELSE m.sub), d)
                   ELSE IF i = "gemini"
                     THEN WithParseMessages(
                            Rejected("Unparsable", NoStatus, 0, ToStr(textOut)), {"direct"})
                     ELSE WithParseMessages(
                            WithRawResponse(Rejected("Unparsable", NoStatus, 0, clean), d),
                            {"direct"})

(* whether ParseResponse ended in its failure branch *)
ParseEndsInFailure(i, d) ==
  LET r == ParseResponse(i, d) IN r.kind = "rejected" \/ r.errorObj

(* no error thrown yet *)
NoError ==
  [thrown |-> FALSE, hasAttempts |-> FALSE, attempts |-> 0, status |-> NoStatus,
   hasHeaders |-> FALSE, headers |-> AbsentHeader, hasBody |-> FALSE, original |-> FALSE]

(* the enriched error callWithRetry throws: the fields each generation sets *)
(* on it from the failure (status st, Retry-After header h, body b) of      *)
(* attempt att                                                              *)
EnrichedError(i, st, h, b, att) ==
  CASE i = "robust" ->
         [thrown |-> TRUE, hasAttempts |-> TRUE, attempts |-> att, status |-> st,
          hasHeaders |-> TRUE, headers |-> h, hasBody |-> b, original |-> TRUE]
    [] i = "gemini" ->
         [thrown |-> TRUE, hasAttempts |-> FALSE, attempts |-> 0, status |-> st,
          hasHeaders |-> FALSE, headers |-> AbsentHeader, hasBody |-> b,
          original |-> TRUE]
    [] i = "openai" ->
         [thrown |-> TRUE, hasAttempts |-> FALSE, attempts |-> 0, status |-> st,
          hasHeaders |-> TRUE, headers |-> h, hasBody |-> FALSE, original |-> TRUE]

(* what extractStructuredJSON does with the error callWithRetry threw *)
RetryFailure(i, st, att) ==
  IF i = "openai" THEN ReturnedError("error", st, <<>>)
  ELSE Rejected("AIServiceError", st, IF i = "robust" THEN att ELSE 0, <<>>)

Init ==
  /\ impl \in Impls
  /\ apiKey \in BOOLEAN
  /\ maxAttempts \in AttemptsCfg(impl)
  /\ pc = "init"
  /\ attempt = 0
  /\ calls = 0
  /\ failures = 0
  /\ sleeps = 0
  /\ status = NoStatus
  /\ header = AbsentHeader
  /\ waitMs = 0
  /\ cwr = "none"
  /\ data = NullBody
  /\ parseFailed = FALSE
  /\ result = Pending
  /\ n8nCalls = 0
  /\ response = "none"
  /\ upstreamBody = FALSE
  /\ enriched = NoError

(* extractStructuredJSON up to the first transport call: the API key check, *)
(* the prompt, and callWithRetry's entry                                     *)
Start ==
  /\ pc = "init"
  /\ IF impl # "openai" /\ ~apiKey
       THEN /\ pc' = "settled"
            /\ result' = Rejected("AIServiceConfigError", NoStatus, 0, <<>>)
            /\ attempt' = attempt
            /\ embedded' = embedded
       ELSE /\ pc' = "call"
            /\ attempt' = 1
            /\ result' = result
            /\ embedded' = EmbedDocument(impl, docText)
  /\ UNCHANGED <<impl, apiKey, maxAttempts, calls, failures, sleeps, status, header,
                 waitMs, cwr, data, parseFailed, n8nCalls, response, upstreamBody,
                 enriched>>
  /\ UNCHANGED <<qvars, docText, wvars>>

(* fn() resolves: callWithRetry returns it and extractStructuredJSON goes on *)
(* to normalize and parse the body                                           *)
FnResolves ==
  /\ pc = "call"
  /\ \E d \in Bodies :
       /\ data' = d
       /\ result' = ParseResponse(impl, d)
       /\ parseFailed' = ParseEndsInFailure(impl, d)
  /\ calls' = calls + 1
  /\ cwr' = "returned"
  /\ pc' = "settled"
  /\ UNCHANGED <<impl, apiKey, maxAttempts, attempt, failures, sleeps, status, header,
                 waitMs, n8nCalls, response, upstreamBody, enriched>>
  /\ UNCHANGED <<qvars, pvars, wvars>>

(* fn() rejects: the catch block of callWithRetry *)
FnRejects ==
  /\ pc = "call"
  /\ calls < CallCap
  /\ \E st \in Statuses, h \in Headers, b \in BOOLEAN :
       \E w \in WaitChoices(impl, attempt, h) :
         /\ b => st # NoStatus
         /\ status' = st
         /\ header' = h
         /\ upstreamBody' = b
         /\ IF ShouldThrow(impl, st, attempt, maxAttempts)
              THEN /\ cwr' = "threw"
                   /\ enriched' = EnrichedError(impl, st, h, b, attempt)
                   /\ result' = RetryFailure(impl, st, attempt)
                   /\ pc' = "settled"
                   /\ sleeps' = sleeps
                   /\ waitMs' = IF impl = "robust" THEN w ELSE 0
              ELSE /\ waitMs' = w
                   /\ sleeps' = sleeps + 1
                   /\ pc' = "sleep"
                   /\ UNCHANGED <<cwr, result, enriched>>
  /\ calls' = calls + 1
  /\ failures' = failures + 1
  /\ UNCHANGED <<impl, apiKey, maxAttempts, attempt, data, parseFailed, n8nCalls,
                 response>>
  /\ UNCHANGED <<qvars, pvars, wvars>>

(* a slip in the loop counter: the attempt number goes up by two *)
SleepDoneSkips ==
  /\ pc = "sleep"
  /\ attempt' = attempt + 2
  /\ IF impl # "robust" /\ attempt + 2 > maxAttempts
       THEN /\ cwr' = "fellout"
            /\ pc' = "settled"
            /\ result' = ParseResponse(impl, NullBody)
       ELSE /\ pc' = "call"
            /\ UNCHANGED <<cwr, result>>
  /\ status' = NoStatus
  /\ header' = AbsentHeader
  /\ waitMs' = 0
  /\ upstreamBody' = FALSE
  /\ UNCHANGED <<impl, apiKey, maxAttempts, calls, failures, sleeps, data, parseFailed,
                 n8nCalls, response, enriched>>
  /\ UNCHANGED <<qvars, pvars, wvars>>

(* the sleep ends and the loop goes round: the next attempt, or, in the for *)
(* loops, the end of the loop and a return of undefined                      *)
SleepDone ==
  /\ pc = "sleep"
  /\ attempt' = attempt + 1
  /\ IF impl # "robust" /\ attempt + 1 > maxAttempts
       THEN /\ cwr' = "fellout"
            /\ pc' = "settled"
            /\ result' = ParseResponse(impl, NullBody)
       ELSE /\ pc' = "call"
            /\ UNCHANGED <<cwr, result>>
  /\ status' = NoStatus
  /\ header' = AbsentHeader
  /\ waitMs' = 0
  /\ upstreamBody' = FALSE
  /\ UNCHANGED <<impl, apiKey, maxAttempts, calls, failures, sleeps, data, parseFailed,
                 n8nCalls, response, enriched>>
  /\ UNCHANGED <<qvars, pvars, wvars>>

(* POST /process after the await: sendToN8N and res.json, or the catch *)
Respond ==
  /\ pc = "settled"
  /\ IF result.kind = "resolved"
       THEN \E d \in Deliveries :
              LET sent == sendToN8N(n8nUrl, d) IN
                /\ n8nCalls' = n8nCalls + 1
                /\ n8nPosts' = n8nPosts + sent.posts
                /\ n8nOutcome' = sent.outcome
                /\ response' = IF sent.threw THEN "error500" ELSE "success"
       ELSE /\ n8nCalls' = n8nCalls
            /\ response' = "error500"
            /\ UNCHANGED <<n8nPosts, n8nOutcome>>
  /\ pc' = "responded"
  /\ UNCHANGED <<impl, apiKey, maxAttempts, attempt, calls, failures, sleeps, status,
                 header, waitMs, cwr, data, parseFailed, result, upstreamBody, enriched>>
  /\ UNCHANGED <<qvars, pvars, n8nUrl, whReqs, whPc, whEmail, whResponse>>

(* ---------------- POST /send-webhook ------------------------------------ *)
(* res.status(code).json(...) *)
Answer(code, ok) == [code |-> code, success |-> ok]
NoAnswer == Answer(0, FALSE)

(* what the route answers once sendToN8N has settled *)
WebhookAnswer(sent) ==
  IF sent.threw
    THEN Answer(IF sent.outcome.status # NoStatus THEN sent.outcome.status ELSE 500,
                FALSE)
    ELSE Answer(OkStatus, TRUE)

WInit ==
  /\ n8nUrl \in BOOLEAN
  /\ n8nPosts = 0
  /\ n8nOutcome = NotCalled
  /\ whReqs = 0
  /\ whPc = "idle"
  /\ whEmail = "missing"
  /\ whResponse = NoAnswer

(* no webhook request, N8N_WEBHOOK_URL set *)
WIdle == WInit /\ n8nUrl

(* a request arrives: the handler runs up to the await of the post, or to   *)
(* its answer when it makes no post                                         *)
SendWebhook ==
  /\ whPc \in {"idle", "responded"}
  /\ whReqs < MaxWebhookReqs
  /\ whReqs' = whReqs + 1
  /\ \E email \in Emails, text \in TextKinds :
       /\ whEmail' = email
       /\ IF email # "valid"
            THEN /\ whPc' = "responded"
                 /\ whResponse' = Answer(400, FALSE)
                 /\ n8nOutcome' = NotCalled
            ELSE IF text = "other"
            THEN /\ whPc' = "responded"
                 /\ whResponse' = Answer(500, FALSE)
                 /\ n8nOutcome' = NotCalled
            ELSE IF ~n8nUrl
            THEN /\ whPc' = "responded"
                 /\ whResponse' = WebhookAnswer(sendToN8N(n8nUrl, OkStatus))
                 /\ n8nOutcome' = sendToN8N(n8nUrl, OkStatus).outcome
            ELSE /\ whPc' = "posting"
                 /\ whResponse' = NoAnswer
                 /\ n8nOutcome' = NotCalled
  /\ UNCHANGED <<n8nUrl, n8nPosts>>
  /\ UNCHANGED <<rvars, qvars, pvars>>

(* the post settles, sendToN8N returns and the route answers *)
WebhookPostSettles ==
  /\ whPc = "posting"
  /\ \E d \in Deliveries :
       LET sent == sendToN8N(n8nUrl, d) IN
         /\ n8nPosts' = n8nPosts + sent.posts
         /\ n8nOutcome' = sent.outcome
         /\ whResponse' = WebhookAnswer(sent)
  /\ whPc' = "responded"
  /\ UNCHANGED <<n8nUrl, whReqs, whEmail>>
  /\ UNCHANGED <<rvars, qvars, pvars>>


(* ---------------- the request queue in front of the service ------------ *)
(* src/src/lib/queue.js builds a p-queue with these options; p-queue itself *)
(* is a dependency, so its admission rule is taken from the design: a task  *)
(* starts only while fewer than concurrency tasks execute and fewer than    *)
(* intervalCap tasks have started in the current fixed window, in FIFO      *)
(* order; the count of starts is zeroed every interval.                     *)
Concurrency == 2
IntervalCap == 2
IntervalMs == 2
NumReqs == 3

Reqs == 1..NumReqs

(* slips in the options: an option left out takes p-queue's default,      *)
(* Infinity, which more than NumReqs stands for                             *)
QueueOptionsNoConcurrency ==
  [concurrency |-> NumReqs + 1, intervalCap |-> IntervalCap, interval |-> IntervalMs]
QueueOptionsNoIntervalCap ==
  [concurrency |-> Concurrency, intervalCap |-> NumReqs + 1, interval |-> IntervalMs]

(* new PQueue({ concurrency, intervalCap, interval }) *)
QueueOptions ==
  [concurrency |-> Concurrency, intervalCap |-> IntervalCap, interval |-> IntervalMs]


QInit ==
  /\ nextReq = 1
  /\ reqRoute = [r \in Reqs |-> "none"]
  /\ reqState = [r \in Reqs |-> "new"]
  /\ reqAttempt = [r \in Reqs |-> 0]
  /\ reqAdmitted = [r \in Reqs |-> FALSE]
  /\ reqCalled = [r \in Reqs |-> FALSE]
  /\ qWaiting = <<>>
  /\ qPending = 0
  /\ intervalCount = 0
  /\ phase = 0
  /\ recentStarts = [k \in 1..QueueOptions.interval |-> 0]

(* the count added to the newest tick of recentStarts *)
NoteStart(rs) == [rs EXCEPT ![Len(rs)] = rs[Len(rs)] + 1]

(* a slip in the submission: the task is put at the front of the queue *)
queuedExtractStructuredJSONFront(r) ==
  /\ r = nextReq
  /\ nextReq' = nextReq + 1
  /\ reqRoute' = [reqRoute EXCEPT ![r] = "queued"]
  /\ reqState' = [reqState EXCEPT ![r] = "waiting"]
  /\ qWaiting' = <<r>> \o qWaiting
  /\ UNCHANGED <<reqAttempt, reqAdmitted, reqCalled, qPending, intervalCount, phase,
                 recentStarts>>
  /\ UNCHANGED <<rvars, pvars, wvars>>

(* routes/upload.js with the queue: queuedExtractStructuredJSON(args) adds  *)
(* the task to the queue                                                     *)
queuedExtractStructuredJSON(r) ==
  /\ r = nextReq
  /\ nextReq' = nextReq + 1
  /\ reqRoute' = [reqRoute EXCEPT ![r] = "queued"]
  /\ reqState' = [reqState EXCEPT ![r] = "waiting"]
  /\ qWaiting' = Append(qWaiting, r)
  /\ UNCHANGED <<reqAttempt, reqAdmitted, reqCalled, qPending, intervalCount, phase,
                 recentStarts>>
  /\ UNCHANGED <<rvars, pvars, wvars>>

(* src/src/routes/upload.js: aiService.extractStructuredJSON called by the  *)
(* route itself; its first transport call goes out at once                   *)
directExtractStructuredJSON(r) ==
  /\ r = nextReq
  /\ nextReq' = nextReq + 1
  /\ reqRoute' = [reqRoute EXCEPT ![r] = "direct"]
  /\ reqState' = [reqState EXCEPT ![r] = "running"]
  /\ reqAttempt' = [reqAttempt EXCEPT ![r] = 1]
  /\ reqCalled' = [reqCalled EXCEPT ![r] = TRUE]
  /\ UNCHANGED <<reqAdmitted, qWaiting, qPending, intervalCount, phase, recentStarts>>
  /\ UNCHANGED <<rvars, pvars, wvars>>

(* the queue starts its oldest waiting task *)
Admit ==
  /\ qWaiting # <<>>
  /\ qPending < QueueOptions.concurrency
  /\ intervalCount < QueueOptions.intervalCap
  /\ LET r == Head(qWaiting) IN
       /\ reqState' = [reqState EXCEPT ![r] = "running"]
       /\ reqAttempt' = [reqAttempt EXCEPT ![r] = 1]
       /\ reqAdmitted' = [reqAdmitted EXCEPT ![r] = TRUE]
       /\ reqCalled' = [reqCalled EXCEPT ![r] = TRUE]
  /\ qWaiting' = Tail(qWaiting)
  /\ qPending' = qPending + 1
  /\ intervalCount' = intervalCount + 1
  /\ recentStarts' = NoteStart(recentStarts)
  /\ UNCHANGED <<nextReq, reqRoute, phase>>
  /\ UNCHANGED <<rvars, pvars, wvars>>

(* the task's promise settles: a queued task gives its slot back *)
Release(r) == IF reqAdmitted[r] THEN qPending - 1 ELSE qPending

(* a slip in the wait: a sleep that keeps the process busy, so no other     *)
(* request's call completes while a request sleeps                           *)
TaskSucceedsUnlessSleeper(r) ==
  /\ reqState[r] = "running"
  /\ \A o \in Reqs : reqState[o] # "sleeping"
  /\ reqState' = [reqState EXCEPT ![r] = "succeeded"]
  /\ qPending' = Release(r)
  /\ UNCHANGED <<nextReq, reqRoute, reqAttempt, reqAdmitted, reqCalled, qWaiting,
                 intervalCount, phase, recentStarts>>
  /\ UNCHANGED <<rvars, pvars, wvars>>

(* the transport call of a running request succeeds *)
TaskSucceeds(r) ==
  /\ reqState[r] = "running"
  /\ reqState' = [reqState EXCEPT ![r] = "succeeded"]
  /\ qPending' = Release(r)
  /\ UNCHANGED <<nextReq, reqRoute, reqAttempt, reqAdmitted, reqCalled, qWaiting,
                 intervalCount, phase, recentStarts>>
  /\ UNCHANGED <<rvars, pvars, wvars>>

(* a slip in the task: its promise settles when the retry wait begins, so   *)
(* the slot is given back during the sleep                                   *)
TaskCallFailsReleasesSlot(r) ==
  /\ reqState[r] = "running"
  /\ \E st \in {429, 401} :
       IF ShouldThrow(impl, st, reqAttempt[r], maxAttempts)
         THEN /\ reqState' = [reqState EXCEPT ![r] = "failed"]
              /\ qPending' = IF reqAttempt[r] = 1 THEN Release(r) ELSE qPending
         ELSE /\ reqState' = [reqState EXCEPT ![r] = "sleeping"]
              /\ qPending' = IF reqAttempt[r] = 1 THEN Release(r) ELSE qPending
  /\ UNCHANGED <<nextReq, reqRoute, reqAttempt, reqAdmitted, reqCalled, qWaiting,
                 intervalCount, phase, recentStarts>>
  /\ UNCHANGED <<rvars, pvars, wvars>>

(* a slip in the task: a failure leaves the slot taken *)
TaskCallFailsKeepsSlot(r) ==
  /\ reqState[r] = "running"
  /\ \E st \in {429, 401} :
       IF ShouldThrow(impl, st, reqAttempt[r], maxAttempts)
         THEN reqState' = [reqState EXCEPT ![r] = "failed"]
         ELSE reqState' = [reqState EXCEPT ![r] = "sleeping"]
  /\ UNCHANGED <<nextReq, reqRoute, reqAttempt, reqAdmitted, reqCalled, qWaiting,
                 qPending, intervalCount, phase, recentStarts>>
  /\ UNCHANGED <<rvars, pvars, wvars>>

(* the transport call of a running request fails: the task ends with the    *)
(* enriched error, or sleeps before its next attempt                         *)
TaskCallFails(r) ==
  /\ reqState[r] = "running"
  /\ \E st \in {429, 401} :
       IF ShouldThrow(impl, st, reqAttempt[r], maxAttempts)
         THEN /\ reqState' = [reqState EXCEPT ![r] = "failed"]
              /\ qPending' = Release(r)
         ELSE /\ reqState' = [reqState EXCEPT ![r] = "sleeping"]
              /\ qPending' = qPending
  /\ UNCHANGED <<nextReq, reqRoute, reqAttempt, reqAdmitted, reqCalled, qWaiting,
                 intervalCount, phase, recentStarts>>
  /\ UNCHANGED <<rvars, pvars, wvars>>

(* the sleep of a request ends and its next attempt starts *)
TaskWakes(r) ==
  /\ reqState[r] = "sleeping"
  /\ reqState' = [reqState EXCEPT ![r] = "running"]
  /\ reqAttempt' = [reqAttempt EXCEPT ![r] = reqAttempt[r] + 1]
  /\ UNCHANGED <<nextReq, reqRoute, reqAdmitted, reqCalled, qWaiting, qPending,
                 intervalCount, phase, recentStarts>>
  /\ UNCHANGED <<rvars, pvars, wvars>>

(* time advances by one tick; at the end of the window the count of starts  *)
(* is zeroed                                                                 *)
Tick ==
  /\ phase' = (phase + 1) % QueueOptions.interval
  /\ intervalCount' = IF phase' = 0 THEN 0 ELSE intervalCount
  /\ recentStarts' = Tail(recentStarts) \o <<0>>
  /\ UNCHANGED <<nextReq, reqRoute, reqState, reqAttempt, reqAdmitted, reqCalled,
                 qWaiting, qPending>>
  /\ UNCHANGED <<rvars, pvars, wvars>>

(* ---------------- specifications --------------------------------------- *)
(* one request through the service, the queue left alone *)
Next == Start \/ FnResolves \/ FnRejects \/ SleepDone \/ Respond

(* the document of the single request when the prompt is not under study *)
PromptIdle == docText = <<"a">> /\ embedded = <<>>

(* any document up to MaxDocLen characters *)
PromptInit == docText \in DocTexts /\ embedded = <<>>

(* one request, with the queue idle *)
SpecInit == Init /\ QInit /\ PromptIdle /\ WInit

Spec == SpecInit /\ [][Next]_vars

(* part_002 with its key set and MAX_RETRIES as the environment gives it *)
AnyConfigInit ==
  /\ impl = "robust"
  /\ apiKey = TRUE
  /\ maxAttempts \in EnvMaxRetries
  /\ pc = "init"
  /\ attempt = 0
  /\ calls = 0
  /\ failures = 0
  /\ sleeps = 0
  /\ status = NoStatus
  /\ header = AbsentHeader
  /\ waitMs = 0
  /\ cwr = "none"
  /\ data = NullBody
  /\ parseFailed = FALSE
  /\ result = Pending
  /\ n8nCalls = 0
  /\ response = "none"
  /\ upstreamBody = FALSE
  /\ enriched = NoError
  /\ QInit
  /\ PromptIdle
  /\ WIdle

SpecAnyConfig == AnyConfigInit /\ [][Next]_vars

(* requests through the routes and the queue, the single request left alone *)
QueueNext ==
  \/ \E r \in Reqs : queuedExtractStructuredJSON(r)
  \/ \E r \in Reqs : directExtractStructuredJSON(r)
  \/ Admit
  \/ \E r \in Reqs : TaskSucceeds(r)
  \/ \E r \in Reqs : TaskCallFails(r)
  \/ \E r \in Reqs : TaskWakes(r)
  \/ Tick

(* the service behind the queue: part_002 with its key set and one retry    *)
(* allowed (GEMINI_MAX_RETRIES=2)                                            *)
RFixed == Init /\ impl = "robust" /\ apiKey /\ maxAttempts = 2

QueueInit == RFixed /\ QInit /\ PromptIdle /\ WIdle

(* requests through the queue only, with the scheduling of the event loop: *)
(* a task that can start is started, a timer that is due fires, a transport  *)
(* call that is in flight ends, a sleep that was started ends                *)
QueuedNext ==
  \/ \E r \in Reqs : queuedExtractStructuredJSON(r)
  \/ Admit
  \/ \E r \in Reqs : TaskSucceeds(r)
  \/ \E r \in Reqs : TaskCallFails(r)
  \/ \E r \in Reqs : TaskWakes(r)
  \/ Tick

QueueFairness ==
  /\ WF_vars(Admit)
  /\ WF_vars(Tick)
  /\ \A r \in Reqs : WF_vars(TaskSucceeds(r) \/ TaskCallFails(r))
  /\ \A r \in Reqs : WF_vars(TaskWakes(r))

SpecQueueFair == QueueInit /\ [][QueuedNext]_vars /\ QueueFairness

(* the prompt of one request, for every document: extractStructuredJSON up *)
(* to its first transport call                                              *)
PromptSpecInit == Init /\ QInit /\ PromptInit /\ WIdle

PromptNext == Start

SpecPrompt == PromptSpecInit /\ [][PromptNext]_vars

SpecQueue == QueueInit /\ [][QueueNext]_vars

(* ======================= properties ==================================== *)

(* C1: after k retryable failures, k < maxAttempts, and then a success,    *)
(* callWithRetry returns the success having made k+1 transport calls: the   *)
(* loop never gives up on retryable failures before maxAttempts of them,    *)
(* never ends without an outcome of fn, and when it returns the number of   *)
(* calls is the number of failures plus one.                                *)
C1_RetryThenSuccess ==
  /\ (cwr = "returned" =>
        /\ calls = failures + 1
        /\ attempt = calls
        /\ failures < maxAttempts
        /\ result = ParseResponse(impl, data))
  /\ (cwr = "threw" /\ IsRetryable(status) => failures >= maxAttempts)
  /\ (pc = "sleep" => cwr = "none" /\ failures < maxAttempts)
  /\ cwr # "fellout"

C1_Witness ==
  cwr = "returned" /\ failures = 2 /\ calls = 3 /\ sleeps = 2 /\ result.success

(* C2: a first failure whose status is present and neither 429 nor 5xx     *)
(* ends the invocation on attempt 1: one transport call, no sleep, and the  *)
(* error carries the upstream status.                                       *)
C2_NonRetryableFailsAtOnce ==
  (failures = 1 /\ calls = 1 /\ status # NoStatus /\ status # 429
     /\ ~(status >= 500 /\ status <= 599)) =>
    /\ cwr = "threw"
    /\ pc \in {"settled", "responded"}
    /\ attempt = 1
    /\ sleeps = 0
    /\ result.errStatus = status

C2_Witness ==
  cwr = "threw" /\ calls = 1 /\ status = 401 /\ sleeps = 0 /\ result.errStatus = 401

(* C3: when every transport call fails with a retryable error the loop     *)
(* makes exactly maxAttempts calls, raises on the last one, and sleeps      *)
(* maxAttempts - 1 times (no wait after the final failure).                 *)
C3_ExhaustsAttempts ==
  /\ calls <= maxAttempts
  /\ sleeps <= maxAttempts - 1
  /\ (cwr = "threw" /\ IsRetryable(status) =>
        /\ calls = maxAttempts
        /\ failures = maxAttempts
        /\ attempt = maxAttempts
        /\ sleeps = maxAttempts - 1
        /\ pc \in {"settled", "responded"})

C3_Witness ==
  cwr = "threw" /\ IsRetryable(status) /\ maxAttempts >= 4 /\ calls = maxAttempts
    /\ sleeps = maxAttempts - 1

(* the tasks the queue has started and that have not settled *)
Executing == {r \in Reqs : reqAdmitted[r] /\ reqState[r] \in {"running", "sleeping"}}

(* C4: with more requests submitted than concurrency, the number of tasks  *)
(* executing (admitted, not yet terminal) never exceeds concurrency.        *)
C4_ConcurrencyBound == Cardinality(Executing) <= Concurrency

C4_Witness ==
  /\ Cardinality(Executing) = Concurrency
  /\ qWaiting # <<>>
  /\ Cardinality({r \in Reqs : reqRoute[r] = "queued"}) > Concurrency

RECURSIVE SumSeq(_)
SumSeq(q) == IF q = <<>> THEN 0 ELSE Head(q) + SumSeq(Tail(q))

(* starts in the IntervalMs ticks that end now *)
StartsInSlidingWindow == SumSeq(recentStarts)

(* starts since the last reset of the count: the ticks of the fixed window *)
StartsInFixedWindow ==
  SumSeq(SubSeq(recentStarts, Len(recentStarts) - phase, Len(recentStarts)))

(* C5 as stated: no more than intervalCap tasks start within any time      *)
(* window of length intervalMs.                                             *)
C5_AnyWindow == StartsInSlidingWindow <= IntervalCap

(* C5 as amended: no more than intervalCap tasks start within any one of   *)
(* the queue's fixed windows (from one reset of the start count to the      *)
(* next).                                                                   *)
C5_FixedWindow == StartsInFixedWindow <= IntervalCap

C5_Witness ==
  /\ StartsInFixedWindow = IntervalCap
  /\ qWaiting # <<>>
  /\ qPending < Concurrency

(* C6: every transport call made for a POST /process request is made from  *)
(* inside a task the queue admitted.                                        *)
C6_AllCallsQueued == \A r \in Reqs : reqCalled[r] => reqAdmitted[r]

(* C7: the wait computed before a retry is within [0, maxDelayMs].         *)
C7_WaitWithinBounds ==
  pc = "sleep" =>
    /\ waitMs >= 0
    /\ (HasMaxDelay(impl) => waitMs <= MaxDelayOf(impl))

(* a Retry-After value the HTTP grammar allows: decimal seconds or a date *)
ValidRetryAfter(h) ==
  h.kind = "date" \/ (h.kind = "text" /\ h.chars # <<>> /\ AllDigits(h.chars))

(* the time the header asks for, in ms *)
RemainingMs(h) ==
  IF h.kind = "date" THEN h.epoch - NowMs ELSE DecimalVal(h.chars) * 1000

Clamp(x, lo, hi) == Max(lo, Min(x, hi))

(* C8: with a valid Retry-After (integer seconds or HTTP date) the wait is *)
(* the remaining time in ms clamped to [0, maxDelayMs], not the jittered    *)
(* backoff; with none, or an unparsable one, the wait is the jittered       *)
(* backoff.                                                                 *)
C8_RetryAfterHonoured ==
  pc = "sleep" =>
    IF ValidRetryAfter(header)
      THEN waitMs = IF HasMaxDelay(impl)
                      THEN Clamp(RemainingMs(header), 0, MaxDelayOf(impl))
                      ELSE Max(0, RemainingMs(header))
      ELSE (header.kind = "absent" \/ header.chars \in {<<>>, <<"a", "b", "c">>}) =>
             waitMs \in WaitChoices(impl, attempt, AbsentHeader)

(* the value of an object's member, Undefined when it has none *)
Member(v, k) ==
  LET at == {j \in 1..Len(v.keys) : v.keys[j] = k} IN
  IF at = {} THEN Undefined ELSE v.kids[CHOOSE j \in at : \A m \in at : j >= m]

(* the shape the design asks of structuredPayload *)
ValidShape(v) ==
  /\ v.t = "obj"
  /\ Member(v, "$summary").t = "str" /\ Member(v, "$summary").s # "$"
  /\ Member(v, "$key_pairs").t = "arr"
  /\ \A j \in 1..Len(Member(v, "$key_pairs").kids) :
       LET e == Member(v, "$key_pairs").kids[j] IN
         /\ e.t = "obj"
         /\ \A k \in {"$key", "$value", "$reason"} : Member(e, k).t # "undefined"
  /\ Member(v, "$confidence").t = "num"
  /\ Member(v, "$confidence").n >= 0 /\ Member(v, "$confidence").n <= 10

(* C9: a success result only ever carries a payload of the expected shape. *)
C9_SuccessHasValidShape ==
  (result.kind = "resolved" /\ result.success) => ValidShape(result.payload)

(* C10: when the retry loop ends in failure or the model text cannot be    *)
(* parsed, extractStructuredJSON rejects, and POST /process does not answer *)
(* success:true.                                                            *)
C10_NoErrorBecomesSuccess ==
  (cwr = "threw" \/ parseFailed) =>
    /\ result.kind = "rejected"
    /\ response # "success"

(* C11: every error callWithRetry raises carries the attempt count, the    *)
(* upstream status when there is one, the upstream headers, and the         *)
(* upstream body when the failure has one.                                  *)
C11_ErrorIsEnriched ==
  cwr = "threw" =>
    /\ enriched.thrown
    /\ enriched.hasAttempts /\ enriched.attempts = attempt
    /\ enriched.status = status
    /\ enriched.hasHeaders /\ enriched.headers = header
    /\ (upstreamBody => enriched.hasBody)

(* the steps of a request's life the design allows *)
LifecycleSteps ==
  { <<"new", "waiting">>, <<"waiting", "running">>, <<"running", "succeeded">>,
    <<"running", "failed">>, <<"running", "sleeping">>, <<"sleeping", "running">> }

Terminal == {"succeeded", "failed"}

(* C12: every request goes Queued -> Admitted -> Attempting(n) ->          *)
(* Succeeded, Attempting(n+1) or Failed: it is queued and admitted before    *)
(* its first attempt, its attempts follow one another, and once Succeeded    *)
(* or Failed it makes no further transport call and changes state no more.   *)
C12_RequestLifecycle ==
  [][\A r \in Reqs :
       /\ (reqState'[r] # reqState[r] => <<reqState[r], reqState'[r]>> \in LifecycleSteps)
       /\ (reqState[r] = "waiting" /\ reqState'[r] = "running" =>
             reqAdmitted'[r] /\ reqAttempt'[r] = 1)
       /\ (reqState[r] = "sleeping" /\ reqState'[r] = "running" =>
             reqAttempt'[r] = reqAttempt[r] + 1)
       /\ (reqState[r] \in Terminal =>
             reqState'[r] = reqState[r] /\ reqAttempt'[r] = reqAttempt[r])]_vars

(* transport attempts of the request that have started and have no outcome *)
AttemptsInProgress == attempt - calls

(* C13: at most one transport attempt of a request is in progress at any   *)
(* instant; attempt n+1 starts only after attempt n has failed and its wait  *)
(* has elapsed; attempt numbers are 1, 2, 3, ..., each one more than the     *)
(* last.                                                                     *)
C13_SequentialAttempts ==
  /\ [](AttemptsInProgress \in {0, 1} /\ (pc = "call" <=> AttemptsInProgress = 1))
  /\ [][attempt' # attempt =>
          /\ attempt' = attempt + 1
          /\ IF attempt = 0 THEN pc = "init"
             ELSE pc = "sleep" /\ failures = attempt /\ calls = attempt]_vars

C13_Witness ==
  pc = "call" /\ attempt = 3 /\ failures = 2 /\ sleeps = 2

(* C14: the queue starts its tasks in submission order: of two requests    *)
(* submitted to the queue, the later one is not admitted before the earlier  *)
(* one, whatever the retries each needs (requests arrive in the order of     *)
(* their numbers).                                                           *)
C14_FifoAdmission ==
  \A a, b \in Reqs :
    (a < b /\ reqRoute[a] = "queued" /\ reqRoute[b] = "queued" /\ reqAdmitted[b])
      => reqAdmitted[a]

C14_Witness ==
  /\ \A r \in 1..3 : reqRoute[r] = "queued" /\ reqAdmitted[r]
  /\ reqState[1] = "running" /\ reqAttempt[1] = 2
  /\ reqState[2] = "succeeded"

(* admitted requests waiting between two attempts *)
InBackoff == {r \in Reqs : reqAdmitted[r] /\ reqState[r] = "sleeping"}

(* C15: an admitted request keeps its concurrency slot for its whole retry *)
(* loop: the queue's count of executing tasks includes the requests that     *)
(* sleep between attempts, and while concurrency requests execute or sleep   *)
(* no further request is admitted.                                           *)
C15_SlotHeldDuringBackoff ==
  /\ [](qPending = Cardinality(Executing))
  /\ [][Cardinality(Executing) >= Concurrency => reqAdmitted' = reqAdmitted]_vars

C15_Witness ==
  /\ Cardinality(InBackoff) = Concurrency
  /\ qWaiting # <<>>
  /\ intervalCount < IntervalCap

(* C16: with the API key missing extractStructuredJSON fails with the      *)
(* configuration error before any transport call: no upstream call, no       *)
(* retry.                                                                    *)
C16_NoCallWithoutKey ==
  ~apiKey =>
    /\ calls = 0
    /\ sleeps = 0
    /\ pc \in {"init", "settled", "responded"}
    /\ (pc # "init" =>
          result.kind = "rejected" /\ result.errName = "AIServiceConfigError")

(* the text of the model's answer in the body d, NoText when it has none *)
ModelText(i, d) ==
  IF i = "openai"
    THEN IF d.isNull \/ ~d.hasChoice THEN NoText ELSE d.msgContent
    ELSE extractTextFromResponse(i, d)

(* C17: when the transport call succeeds and the normalized text is null   *)
(* or blank, extractStructuredJSON fails with the empty-output error, which  *)
(* carries the raw response body, and the request makes no further           *)
(* transport call.                                                           *)
C17_EmptyOutputFails ==
  (cwr = "returned" /\ NoUsableOutput(ModelText(impl, data))) =>
    /\ result.kind = "rejected"
    /\ result.errName = "EmptyOutput"
    /\ result.hasRawResponse /\ result.rawResponse = data
    /\ calls = failures + 1
    /\ pc \in {"settled", "responded"}

(* no part of the text is a JSON value *)
NoJSONIn(t) ==
  \A a \in 1..Len(t) : \A b \in a..Len(t) : ~JSONParse(SubSeq(t, a, b)).ok

(* C18: when the transport call succeeds with a text from which no JSON    *)
(* can be recovered, extractStructuredJSON fails with the unparsable-output  *)
(* error, whose raw text is the model's text exactly, and the request makes  *)
(* no further transport call.                                                *)
C18_UnparsableCarriesText ==
  LET text == ModelText(impl, data) IN
  (cwr = "returned" /\ text.kind = "str" /\ ~NoUsableOutput(text) /\ NoJSONIn(text.str)) =>
    /\ result.kind = "rejected"
    /\ result.errName = "Unparsable"
    /\ result.raw = text.str
    /\ calls = failures + 1
    /\ pc \in {"settled", "responded"}

(* the direct parse of the text fails, it has a brace substring, and the    *)
(* parse of that substring fails too                                         *)
BothParsesFail(t) ==
  /\ ~StartsWithFence(Trim(t))
  /\ ~JSONParse(Trim(t)).ok
  /\ BraceMatch(Trim(t)).found
  /\ ~JSONParse(BraceMatch(Trim(t)).sub).ok

(* C19: when the direct parse and the parse of the brace substring both    *)
(* fail, the error raised carries the original text and the messages of      *)
(* both parse failures, and no object is returned in its place.              *)
C19_BothParseMessages ==
  LET text == ModelText(impl, data) IN
  (cwr = "returned" /\ text.kind = "str" /\ BothParsesFail(text.str)) =>
    /\ result.kind = "rejected"
    /\ result.raw = text.str
    /\ result.parseMessages = {"direct", "brace"}

(* C20: for a JSON object text J, recovery returns the object of J when    *)
(* the model's text is J, J in a code fence with or without a language tag,  *)
(* or J with commentary before and/or after it.                              *)
C20_RecoversObject ==
  \A J \in JObjects : \A t \in Presentations(J) :
    (cwr = "returned" /\ data = ChatBody(Str(t))) =>
      /\ result.kind = "resolved"
      /\ ~result.errorObj
      /\ result.payload = JSONParse(J).v

RECURSIVE JoinSpace(_)
JoinSpace(ps) ==
  IF ps = <<>> THEN <<>>
  ELSE IF Len(ps) = 1 THEN ps[1]
  ELSE ps[1] \o <<" ">> \o JoinSpace(Tail(ps))

(* the text a field holds: a string, or its parts joined by a space *)
FieldText(f) ==
  CASE f.kind = "absent" -> <<>>
    [] f.kind = "str" -> f.str
    [] f.kind = "arr" -> JoinSpace(f.parts)

(* the six shapes of the design, highest priority first; the last is the    *)
(* serialization of the whole body                                          *)
ShapeTexts(d) ==
  << IF d.hasChoice THEN FieldText(d.msgContent) ELSE <<>>,
     IF d.hasChoice THEN FieldText(d.choiceText) ELSE <<>>,
     IF d.hasChoice THEN FieldText(d.deltaContent) ELSE <<>>,
     FieldText(d.outputContent),
     FieldText(d.outputText),
     <<"serialized">> >>

(* the text of the first shape whose text is not blank *)
PriorityText(d) ==
  LET ts == ShapeTexts(d)
      k == CHOOSE j \in 1..Len(ts) :
             Trim(ts[j]) # <<>> /\ \A m \in 1..(j - 1) : Trim(ts[m]) = <<>>
  IN ts[k]

(* the body matches one of the five known shapes with text that is not blank *)
MatchesKnownShape(d) ==
  ~d.isNull /\ \E j \in 1..5 : Trim(ShapeTexts(d)[j]) # <<>>

(* every text field of the body is a plain string or absent *)
PlainStrings(d) ==
  \A f \in {d.msgContent, d.choiceText, d.deltaContent, d.outputContent, d.outputText} :
    f.kind # "arr"

(* C21: the extractor tries the shapes in the order message content,       *)
(* legacy choice text, delta content, output-array content, output_text,     *)
(* and returns the text of the first one that is not blank: blank shapes     *)
(* are skipped and a body matching several yields the highest-priority one.  *)
C21_ShapePriority ==
  (cwr = "returned" /\ impl # "openai" /\ PlainStrings(data) /\ MatchesKnownShape(data)) =>
    extractTextFromResponse(impl, data) = Str(PriorityText(data))

(* C22: the extractor returns null exactly when the body is null or        *)
(* undefined; for a body that matches none of the known shapes it returns    *)
(* the serialization of the whole body.                                      *)
C22_NullOnlyForNullBody ==
  (cwr = "returned" /\ impl # "openai") =>
    /\ (extractTextFromResponse(impl, data) = NoText <=> data.isNull)
    /\ (~data.isNull /\ ~MatchesKnownShape(data) =>
          extractTextFromResponse(impl, data) = Str(<<"serialized">>))

(* C23: when the first choice's message content is a sequence of parts the *)
(* extractor returns one string, the parts' texts in order joined by a       *)
(* single space, and neither the sequence itself nor its first part alone.   *)
C23_PartsJoinedBySpace ==
  (cwr = "returned" /\ impl # "openai" /\ data.hasChoice /\ data.msgContent.kind = "arr"
     /\ Len(data.msgContent.parts) >= 2) =>
    extractTextFromResponse(impl, data) = Str(JoinSpace(data.msgContent.parts))

(* the text holds three double quotes in a row *)
HasFenceDelimiter(t) ==
  \E k \in 1..(Len(t) - 2) : t[k] = "Q" /\ t[k + 1] = "Q" /\ t[k + 2] = "Q"

(* C24: for every document, the text embedded between the triple quotes of *)
(* the user prompt holds no run of three double quotes.                      *)
C24_NoFenceInEmbeddedText == ~HasFenceDelimiter(embedded)

(* C25: every transport call is issued with a per-call timeout, and a call *)
(* that times out (a failure with no status, like a network error) is        *)
(* retried while attempts remain.                                            *)
C25_CallsHaveTimeout ==
  /\ (pc = "call" \/ calls > 0) => HasCallTimeout(impl)
  /\ (cwr = "threw" /\ status = NoStatus) => failures >= maxAttempts

(* C26: when the first call fails with 429 and no Retry-After, the wait    *)
(* before the one retry is greater than 0 for every draw of the jitter, and  *)
(* a success of the second call ends the invocation after exactly one retry. *)
C26_FirstRetryWaitPositive ==
  /\ (pc = "sleep" /\ attempt = 1 /\ status = 429 /\ header = AbsentHeader) => waitMs > 0
  /\ (cwr = "returned" /\ failures = 1) => (sleeps = 1 /\ calls = 2)

(* the exponential cap of the design for attempt n *)
DesignCap(i, n) ==
  IF HasMaxDelay(i) THEN Min(MaxDelayOf(i), BaseDelayOf(i) * Pow2(n - 1))
  ELSE BaseDelayOf(i) * Pow2(n - 1)

(* C27: with no usable Retry-After header the wait after failed attempt n  *)
(* is within [0, min(maxDelayMs, baseDelayMs * 2^(n-1))].                    *)
C27_WaitWithinExponentialCap ==
  (pc = "sleep" /\ parseRetryAfter(header).isNull) =>
    (waitMs >= 0 /\ waitMs <= DesignCap(impl, attempt))

Submitted == {r \in Reqs : reqRoute[r] = "queued"}
Finished == {r \in Submitted : reqState[r] \in Terminal}

(* C29: every task submitted to the queue is eventually admitted and its   *)
(* result, success or failure, is eventually delivered; a task that fails    *)
(* gives its slot back as one that succeeds does, so in every state the      *)
(* executing, waiting and finished tasks add up to the submitted ones and    *)
(* the queue counts exactly the executing ones. A settled task stays         *)
(* settled and the requests are finitely many, so that every submitted task  *)
(* eventually settles is that, again and again, all submitted tasks have     *)
(* been admitted and have settled.                                           *)
C29_EveryTaskSettles ==
  /\ [](/\ Cardinality(Executing) + Len(qWaiting) + Cardinality(Finished)
             = Cardinality(Submitted)
        /\ qPending = Cardinality(Executing))
  /\ []<>(Finished = Submitted /\ \A r \in Submitted : reqAdmitted[r])

C29_Witness ==
  /\ Submitted = Reqs
  /\ Finished = Reqs
  /\ qPending = 0
  /\ \E r \in Reqs : reqState[r] = "failed"
  /\ \E r \in Reqs : reqState[r] = "succeeded"

(* POST /send-webhook requests alone, the other routes left idle *)
WebhookSpecInit == RFixed /\ QInit /\ PromptIdle /\ WInit

WebhookNext == SendWebhook \/ WebhookPostSettles

SpecWebhook == WebhookSpecInit /\ [][WebhookNext]_vars

(* C30: for every configured maxAttempts, 0, a negative number and a text  *)
(* that is not a number included, callWithRetry makes at least one transport *)
(* call and only finitely many (it never reaches CallCap calls), and it      *)
(* returns only the value of a successful call.                              *)
C30_TerminatesForEveryConfig ==
  /\ (cwr # "none" => calls >= 1)
  /\ calls < CallCap
  /\ (cwr = "returned" => calls = failures + 1)
  /\ cwr # "fellout"

(* the extraction of the request ended without a structured payload *)
ExtractionFailed ==
  \/ result.kind = "rejected"
  \/ result.kind = "resolved" /\ result.errorObj
  \/ cwr = "threw"
  \/ parseFailed

(* C31: POST /process calls sendToN8N at most once per request and only     *)
(* after the extraction has succeeded; when the extraction fails it answers  *)
(* 500 without calling the forwarder; a failed delivery or a missing webhook *)
(* URL leaves the success answer as it is.                                   *)
C31_ForwardOnlyAfterSuccess ==
  /\ n8nCalls <= 1
  /\ n8nCalls = 1 => ~ExtractionFailed
  /\ (pc = "responded" /\ ExtractionFailed) =>
        response = "error500" /\ n8nCalls = 0 /\ n8nPosts = 0
  /\ (pc = "responded" /\ ~ExtractionFailed) =>
        response = "success" /\ n8nOutcome.kind \in {"skipped", "delivered", "failed"}

(* the request was valid and the route got as far as calling sendToN8N *)
WebhookForwarded ==
  whPc = "responded" /\ n8nOutcome.kind # "none"

(* C32: in POST /send-webhook a failed delivery makes sendToN8N throw, so   *)
(* the route answers with the error's status, else 500, and it answers       *)
(* success:true only when the webhook delivery succeeded.                    *)
C32_FailedDeliveryIsAnError ==
  /\ (WebhookForwarded /\ n8nOutcome.kind = "failed") =>
        /\ ~whResponse.success
        /\ whResponse.code =
             (IF n8nOutcome.status # NoStatus THEN n8nOutcome.status ELSE 500)
  /\ (whPc = "responded" /\ whResponse.success) => n8nOutcome.kind = "delivered"

====
